---- MODULE Spec2Model ----
\* Model of services/gemini_ai.py (class GeminiAI): the API-key pool, the
\* cooldown table, _rotate_key, and generate with its retry loop and its
\* fallback to the secondary provider.
EXTENDS Integers, Sequences, FiniteSets, TLC

\* ---------------------------------------------------------------- bounds
\* Largest pool size (len(self.api_keys)) explored.
MaxKeys == 3
\* Number of clock advances explored.
MaxTicks == 4
\* Number of create_admin_user invocations explored.
MaxRuns == 3

\* ------------------------------------------------------ program constants
\* self.cooldown_duration = 60
cooldown_duration == 60

\* time.time() is seconds since 1970: every reading is far above the
\* cooldown duration, so a never-marked key (cooldown 0) is always eligible.
\* The clock is taken to be non-decreasing.
StartTime == 10 * cooldown_duration
\* Granularity of the modelled clock: half a cooldown.
TickStep == cooldown_duration \div 2

\* ------------------------------------------------------------ value model
\* Python None / a present value.
None == <<>>
Some(x) == <<x>>

\* Strings are sequences of characters.
Str_abc == <<"a", " ", "b", " ", "c">>
Str_de == <<"d", " ", "e">>
Str_x == <<"x">>
Str_hi == <<" ", "h", "i", " ">>
Prompts == {Str_abc, Str_hi}

\* str(e) of the exceptions the provider call raises.
Err429 == <<"4", "2", "9">>
ErrQuota == <<"Q", "u", "o", "t", "a">>
ErrTimeout == <<"t", "i", "m", "e", "d">>
ErrBlank == <<>>
ErrorMessages == {Err429, ErrQuota, ErrTimeout, ErrBlank}

\* str.lower() on the characters used.
LowerChar(c) ==
    CASE c = "Q" -> "q"
      [] c = "R" -> "r"
      [] c = "T" -> "t"
      [] OTHER -> c

Lower(s) == [i \in 1..Len(s) |-> LowerChar(s[i])]

\* `term in error_str`: substring test.
Contains(s, t) ==
    \E i \in 1..(Len(s) - Len(t) + 1) : SubSeq(s, i, i + Len(t) - 1) = t

\* The fixed list of rate-limit terms of generate's except clause.
RateLimitTerms ==
    { <<"r","a","t","e"," ","l","i","m","i","t">>,
      <<"q","u","o","t","a">>,
      <<"4","2","9">>,
      <<"r","e","s","o","u","r","c","e"," ","e","x","h","a","u","s","t","e","d">>,
      <<"t","o","o"," ","m","a","n","y"," ","r","e","q","u","e","s","t","s">>,
      <<"r","a","t","e","_","l","i","m","i","t">> }

\* is_rate_limit = any(term in error_str for term in [...]) with
\* error_str = str(e).lower()
IsRateLimit(msg) == \E t \in RateLimitTerms : Contains(Lower(msg), t)

\* The whitespace str.split() splits on, among the characters used.
IsSpace(c) == c \in {" ", "\n", "\t"}

\* Variant: split(" ")-like counting, one piece per separator.
WordCountBySeparators(s) ==
    1 + Cardinality({ i \in 1..Len(s) : s[i] = " " })

\* len(s.split()): the number of maximal runs of non-whitespace characters.
WordCount(s) ==
    Cardinality({ i \in 1..Len(s) :
                    /\ ~IsSpace(s[i])
                    /\ (i = 1 \/ IsSpace(s[i - 1])) })

\* A provider response: the direct text field and the text of the first part
\* of the first candidate, each absent (None) or present; direct_err /
\* nested_err say that reading the field raises IndexError, AttributeError or
\* ValueError (the field is inaccessible).
Response(d, de, n, ne) ==
    [direct |-> d, direct_err |-> de, nested |-> n, nested_err |-> ne]

Responses ==
    { Response(Some(Str_de), FALSE, None, FALSE),
      Response(Some(Str_de), FALSE, Some(Str_x), FALSE),
      Response(None, FALSE, Some(Str_x), FALSE),
      Response(Some(<<>>), FALSE, Some(Str_x), FALSE),
      Response(None, TRUE, Some(Str_x), FALSE),
      Response(None, FALSE, None, FALSE),
      Response(Some(<<>>), FALSE, Some(<<>>), FALSE),
      Response(None, TRUE, None, TRUE) }

\* Variant: the candidates path is never tried.
ExtractTextDirectOnly(resp) ==
    IF resp.direct_err \/ resp.direct = None THEN <<>> ELSE resp.direct[1]

\* Variant: a missing or failing field is not tolerated and yields a
\* placeholder text.
ExtractTextPlaceholder(resp) ==
    IF ~resp.direct_err /\ resp.direct # None /\ resp.direct[1] # <<>>
    THEN resp.direct[1]
    ELSE IF ~resp.nested_err /\ resp.nested # None /\ resp.nested[1] # <<>>
         THEN resp.nested[1]
         ELSE <<"?">>

\* Text extraction of generate: response.text first (lines 127-131), then
\* response.candidates[0].content.parts[0].text (lines 134-147).
ExtractText(resp) ==
    LET direct == IF resp.direct_err THEN <<>>
                  ELSE IF resp.direct # None THEN resp.direct[1] ELSE <<>>
    IN  IF direct # <<>> THEN direct
        ELSE IF resp.nested_err THEN <<>>
        ELSE IF resp.nested # None THEN resp.nested[1]
        ELSE <<>>

\* The result dictionaries generate builds.
SuccessResult(text, p) ==
    [text |-> text, success |-> TRUE,
     tokens_used |-> WordCount(text) + WordCount(p), error |-> None]

EmptyResult ==
    [text |-> <<>>, success |-> FALSE, tokens_used |-> 0,
     error |-> Some(<<"E", "m", "p", "t", "y">>)]

FailureResult(err) ==
    [text |-> <<>>, success |-> FALSE, tokens_used |-> 0, error |-> Some(err)]

\* str(last_error)
StrOf(e) == IF e = None THEN <<"N", "o", "n", "e">> ELSE e[1]

\* What the secondary provider can hand back from its generate.
FallbackResults ==
    { [text |-> <<"f">>, success |-> TRUE, tokens_used |-> 1, error |-> None],
      [text |-> <<>>, success |-> TRUE, tokens_used |-> 0, error |-> None],
      [text |-> <<>>, success |-> FALSE, tokens_used |-> 0,
       error |-> Some(<<"c", "f">>)] }

DummyResult == [text |-> <<>>, success |-> FALSE, tokens_used |-> 0, error |-> None]

\* The fallback block: is_cloudflare_ai_enabled() false ("disabled"), the
\* import or get_cloudflare_ai() raising ("unavailable"), cf_ai.generate
\* raising ("raise") or returning a result ("result").
FallbackOutcomes ==
    [kind : {"disabled", "unavailable", "raise"}, value : {DummyResult}]
      \cup [kind : {"result"}, value : FallbackResults]

\* How a call of generate ends.
NoOutcome == [kind |-> "none", value |-> DummyResult, by |-> "none"]
Return(v, who) == [kind |-> "return", value |-> v, by |-> who]
Raise == [kind |-> "raise", value |-> DummyResult, by |-> "gemini"]

\* ------------------------------------------------------------ key rotation
\* self.key_cooldowns.get(k, 0)
CooldownGet(cds, k) == IF k \in DOMAIN cds THEN cds[k] ELSE 0

\* Variant: the comparison written with `>`.
AvailableStrict(cds, k, t) == t - CooldownGet(cds, k) > cooldown_duration

\* `current_time - cooldown_time >= self.cooldown_duration`
Available(cds, k, t) == t - CooldownGet(cds, k) >= cooldown_duration

\* Variant: the table holds the expiry time instead of the mark time.
MarkCooldownExpiry(cds, k, t) ==
    [j \in (DOMAIN cds) \cup {k} |->
        IF j = k THEN t + cooldown_duration ELSE cds[j]]

\* self.key_cooldowns[k] = current_time
MarkCooldown(cds, k, t) ==
    [j \in (DOMAIN cds) \cup {k} |-> IF j = k THEN t ELSE cds[j]]

\* Variant: the guard written with `<`.
CannotRotateOffByOne(n) == n < 1

\* `if len(self.api_keys) <= 1: return False`
CannotRotate(n) == n <= 1

\* Variant: the client is rebuilt before the index is advanced.
ConfigurePreviousKey(idx) == IF idx = 0 THEN 0 ELSE idx - 1

\* _configure_current_key: the client is rebuilt for api_keys[idx].
ConfigureCurrentKey(idx) == idx

\* The scan loop of _rotate_key, `for _ in range(len(self.api_keys))`:
\* i iterations are done and the index stands at idx.
RECURSIVE ScanKeys(_, _, _, _, _)
ScanKeys(i, idx, cds, t, n) ==
    IF i >= n
    THEN [found |-> FALSE, index |-> idx, examined |-> i]
    ELSE LET cand == (idx + 1) % n
         IN  IF Available(cds, cand, t)
             THEN [found |-> TRUE, index |-> cand, examined |-> i + 1]
             ELSE ScanKeys(i + 1, cand, cds, t, n)

\* _rotate_key, called with the active index idx, the cooldown table cds, the
\* configured client mdl, the clock reading t and the pool size n.
RotateKey(idx, cds, mdl, t, n) ==
    IF CannotRotate(n)
    THEN [ret |-> FALSE, index |-> idx, cooldowns |-> cds, model |-> mdl,
          examined |-> 0]
    ELSE LET original_index == idx
             marked == MarkCooldown(cds, idx, t)
             s == ScanKeys(0, idx, marked, t, n)
         IN  IF s.found
             THEN [ret |-> TRUE, index |-> s.index, cooldowns |-> marked,
                   model |-> ConfigureCurrentKey(s.index),
                   examined |-> s.examined]
             ELSE [ret |-> FALSE, index |-> original_index,
                   cooldowns |-> marked, model |-> mdl,
                   examined |-> s.examined]

\* ------------------------------------------------------------------ state
VARIABLES
    n_keys,             \* len(self.api_keys)
    current_key_index,  \* self.current_key_index
    key_cooldowns,      \* self.key_cooldowns
    model,              \* index of the key self.model is configured against
    now,                \* time.time()
    pc,                 \* position of the running generate call
    attempt,            \* loop variable of the retry loop
    prompt,             \* generate's prompt argument
    last_error,         \* generate's last_error
    result,             \* how the last generate call ended
    tried,              \* provider calls of this generate call
    rotations,          \* _rotate_key calls of this generate call
    rot,                \* the last _rotate_key call: its arguments and return
    fallback,           \* what the fallback block of this call did
    response,           \* the provider response of this call, if any
    status,             \* what the last get_status call returned
    chat,               \* the running or last chat call
    th,                 \* concurrent callers inside _rotate_key
    raced,              \* two _rotate_key calls have overlapped
    users,              \* the user table the admin seeder works on
    seed                \* the running or last create_admin_user call

vars == <<n_keys, current_key_index, key_cooldowns, model, now, pc, attempt,
          prompt, last_error, result, tried, rotations, rot, fallback,
          response, status, chat, th, raced, users, seed>>

pool == <<n_keys, current_key_index, key_cooldowns, model>>
call == <<attempt, prompt, last_error, tried, rotations, rot, fallback,
          response>>

\* What the key-rotation wrapper used by one caller leaves alone: the state of
\* concurrent callers and of the admin seeder.
other == <<th, raced, users, seed>>

EmptyCooldowns == [k \in {} |-> 0]

NoFallback == [kind |-> "none", value |-> DummyResult, t |-> 0]

NoRot == [called |-> FALSE, ret |-> FALSE, t |-> 0, old_index |-> 0,
          old_cooldowns |-> EmptyCooldowns, old_model |-> 0, examined |-> 0]

\* No get_status call since the last generate call.
NoStatus ==
    [called |-> FALSE, enabled |-> FALSE, api_keys_count |-> 0,
     current_key_index |-> 0, key_rotation |-> "none"]

\* No chat call running or finished.
NoChat == [pc |-> "none", text |-> <<>>, error |-> None]

\* The callers that may be inside _rotate_key at the same time.
Threads == {1, 2}

\* A caller outside _rotate_key. current_time, original_index and the loop
\* count i are the locals of _rotate_key, read is the index value loaded by
\* the increment of line 76 before it is stored back; ret is what the
\* caller's call returned and called whether it has made its call.
IdleThread ==
    [pc |-> "idle", current_time |-> 0, original_index |-> 0, i |-> 0,
     read |-> 0, ret |-> FALSE, called |-> FALSE]

\* create_admin_user not running.
SeedIdle == [pc |-> "idle", runs |-> 0, inserted |-> 0, outcome |-> "none"]

\* GeminiAI.__init__ with n configured keys.
ObjectInit(n) ==
    /\ n_keys = n
    /\ current_key_index = 0
    /\ key_cooldowns = EmptyCooldowns
    /\ model = ConfigureCurrentKey(0)
    /\ now = StartTime

\* No generate, chat or get_status call made yet.
CallInit ==
    /\ pc = "idle"
    /\ attempt = 0
    /\ prompt = Str_abc
    /\ last_error = None
    /\ result = NoOutcome
    /\ tried = <<>>
    /\ rotations = 0
    /\ rot = NoRot
    /\ fallback = NoFallback
    /\ response = None
    /\ status = NoStatus
    /\ chat = NoChat

\* No concurrent callers.
ThreadsInit ==
    /\ th = [t \in Threads |-> IdleThread]
    /\ raced = FALSE

\* The seeder has not run and the user table is empty.
SeederOff ==
    /\ users = {}
    /\ seed = SeedIdle

\* GeminiAI.__init__ with 1..MaxKeys configured keys.
Init ==
    /\ \E n \in 1..MaxKeys : ObjectInit(n)
    /\ CallInit
    /\ ThreadsInit
    /\ SeederOff

\* Wall-clock time passes, at any point of a call or between calls.
Tick ==
    /\ (now - StartTime) \div TickStep < MaxTicks
    /\ now' = now + TickStep
    /\ UNCHANGED <<pool, pc, call, result, status, chat, other>>

\* Variants: one retry too many, one too few.
MaxRetriesPlusOne(n) == n + 1
MaxRetriesMinusOne(n) == n - 1

\* `max_retries = len(self.api_keys)`
MaxRetries(n) == n

\* generate is entered with prompt p: lines 105-106.
EnterGenerate(p) ==
    /\ pc = "idle"
    /\ chat.pc # "called"
    /\ prompt' = p
    /\ status' = NoStatus
    /\ attempt' = 0
    /\ last_error' = None
    /\ result' = NoOutcome
    /\ tried' = <<>>
    /\ rotations' = 0
    /\ rot' = NoRot
    /\ fallback' = NoFallback
    /\ response' = None
    /\ pc' = IF 0 < MaxRetries(n_keys) THEN "loop" ELSE "fallback"
    /\ UNCHANGED <<pool, now, other>>

\* A caller calls generate directly.
GenerateBegin ==
    /\ \E p \in Prompts : EnterGenerate(p)
    /\ chat' = NoChat

\* One iteration starts: self.model.generate_content(...) is called with the
\* configured client.
CallProvider ==
    /\ pc = "loop"
    /\ tried' = Append(tried, [key |-> model, out |-> "pending"])
    /\ pc' = "await"
    /\ UNCHANGED <<pool, now, attempt, prompt, last_error, result, rotations,
                   rot, fallback, response, status, chat, other>>

\* Variant: `self._rotate_key() and is_rate_limit`, which rotates on every
\* error.
CallsRotateAlways(is_rate_limit) == TRUE

\* `is_rate_limit and self._rotate_key()`: _rotate_key runs only for a
\* rate-limit error.
CallsRotate(is_rate_limit) == is_rate_limit

SetOut(tr, o) == [tr EXCEPT ![Len(tr)].out = o]

\* Variant: the empty-response branch leaves the loop with `break` instead
\* of returning.
EmptyResponseBreaks == "fallback"

\* `return {...}` of the empty-response branch, line 152: the call is over.
EmptyResponseEnds == "idle"

\* The provider call returns a response: text extraction, lines 123-170.
ProviderResponds(resp) ==
    /\ pc = "await"
    /\ response' = Some(resp)
    /\ LET text == ExtractText(resp)
       IN  IF text = <<>>
           THEN /\ result' = Return(EmptyResult, "gemini")
                /\ tried' = SetOut(tried, "empty")
                /\ pc' = EmptyResponseEnds
           ELSE /\ result' = Return(SuccessResult(text, prompt), "gemini")
                /\ tried' = SetOut(tried, "text")
                /\ pc' = "idle"
    /\ UNCHANGED <<pool, now, attempt, prompt, last_error, rotations, rot,
                   fallback, status, chat, other>>

\* The provider call raises: the except clause, lines 172-187.
ProviderRaises(msg) ==
    /\ pc = "await"
    /\ last_error' = Some(msg)
    /\ LET is_rate_limit == IsRateLimit(msg)
           r == RotateKey(current_key_index, key_cooldowns, model, now, n_keys)
       IN  IF CallsRotate(is_rate_limit)
           THEN /\ current_key_index' = r.index
                /\ key_cooldowns' = r.cooldowns
                /\ model' = r.model
                /\ rotations' = rotations + 1
                /\ rot' = [called |-> TRUE, ret |-> r.ret, t |-> now,
                           old_index |-> current_key_index,
                           old_cooldowns |-> key_cooldowns,
                           old_model |-> model, examined |-> r.examined]
                /\ tried' = SetOut(tried, IF is_rate_limit THEN "rl" ELSE "err")
                /\ IF is_rate_limit /\ r.ret
                   THEN /\ attempt' = attempt + 1
                        /\ pc' = IF attempt + 1 < MaxRetries(n_keys)
                                 THEN "loop" ELSE "fallback"
                   ELSE /\ attempt' = attempt
                        /\ pc' = "fallback"
           ELSE /\ tried' = SetOut(tried, IF is_rate_limit THEN "rl" ELSE "err")
                /\ pc' = "fallback"
                /\ UNCHANGED <<current_key_index, key_cooldowns, model,
                               rotations, rot, attempt>>
    /\ UNCHANGED <<n_keys, now, prompt, result, fallback, response, status,
                   chat, other>>

\* Variant: no except clause around the fallback block.
AfterFallbackUncaught(fo, le) ==
    IF fo.kind \in {"raise", "unavailable"}
    THEN Raise
    ELSE IF fo.kind = "result" /\ fo.value.success
         THEN Return(fo.value, "fallback")
         ELSE Return(FailureResult(StrOf(le)), "gemini")

\* Variant: the fallback's result is returned without looking at its
\* success flag.
AfterFallbackNoCheck(fo, le) ==
    IF fo.kind = "result"
    THEN Return(fo.value, "fallback")
    ELSE Return(FailureResult(StrOf(le)), "gemini")

\* Lines 192-209: the fallback block and the final return.
AfterFallback(fo, le) ==
    IF fo.kind = "result" /\ fo.value.success
    THEN Return(fo.value, "fallback")
    ELSE Return(FailureResult(StrOf(le)), "gemini")

\* The retry loop is over without a return: the fallback block runs.
Fallback(fo) ==
    /\ pc = "fallback"
    /\ fallback' = [kind |-> fo.kind, value |-> fo.value, t |-> now]
    /\ result' = AfterFallback(fo, last_error)
    /\ pc' = "idle"
    /\ UNCHANGED <<pool, now, attempt, prompt, last_error, tried, rotations,
                   rot, response, status, chat, other>>

\* ------------------------------------------------------------- get_status
\* The dictionary get_status returns (its constant entries left out).
StatusOf(n, idx) ==
    [called |-> TRUE, enabled |-> TRUE, api_keys_count |-> n,
     current_key_index |-> idx + 1,
     key_rotation |-> IF n > 1 THEN "enabled" ELSE "disabled"]

\* Variant: the 1-based index is produced by incrementing the field.
IndexAfterStatusBumped(idx) == idx + 1

\* get_status only reads self.current_key_index.
IndexAfterStatus(idx) == idx

\* get_status, called between two generate calls.
GetStatus ==
    /\ pc = "idle"
    /\ chat.pc # "called"
    /\ status' = StatusOf(n_keys, current_key_index)
    /\ current_key_index' = IndexAfterStatus(current_key_index)
    /\ UNCHANGED <<n_keys, key_cooldowns, model, now, pc, call, result, chat,
                   other>>

\* ------------------------------------------------------------------- chat
\* A message dictionary: 'role' and 'content', each possibly missing.
Msg(r, c) == [role |-> r, content |-> c]

\* The message lists chat is called with.
ChatInputs ==
    { << Msg(Some("user"), Some(<<"h", "i">>)) >>,
      << Msg(Some("system"), Some(<<"b", "e">>)),
         Msg(Some("tool"), Some(<<"z">>)),
         Msg(Some("assistant"), Some(<<"o", "k">>)),
         Msg(None, None) >> }

LabelSystem ==
    <<"S","y","s","t","e","m"," ","I","n","s","t","r","u","c","t","i","o","n",
      "s",":"," ">>
LabelUser == <<"U","s","e","r",":"," ">>
LabelAssistant == <<"A","s","s","i","s","t","a","n","t",":"," ">>

\* The prompt_parts entries one message contributes: none for an unknown role.
PromptPart(msg) ==
    LET role == IF msg.role = None THEN "user" ELSE msg.role[1]
        content == IF msg.content = None THEN <<>> ELSE msg.content[1]
    IN  CASE role = "system" -> << LabelSystem \o content \o <<"\n">> >>
          [] role = "user" -> << LabelUser \o content \o <<"\n">> >>
          [] role = "assistant" -> << LabelAssistant \o content \o <<"\n">> >>
          [] OTHER -> << >>

RECURSIVE PromptParts(_)
PromptParts(msgs) ==
    IF msgs = <<>> THEN << >>
    ELSE PromptPart(Head(msgs)) \o PromptParts(Tail(msgs))

\* "\n".join(parts)
RECURSIVE JoinLines(_)
JoinLines(parts) ==
    IF parts = <<>> THEN <<>>
    ELSE IF Len(parts) = 1 THEN parts[1]
    ELSE parts[1] \o <<"\n">> \o JoinLines(Tail(parts))

\* _messages_to_prompt
MessagesToPrompt(msgs) ==
    JoinLines(PromptParts(msgs) \o << LabelAssistant >>)

\* Variant: the text is returned whatever the success flag says.
ChatOutcomeSwallow(res) ==
    [pc |-> "returned", text |-> res.value.text, error |-> None]

\* Lines 229-238 of chat: return result['text'] on success, otherwise raise
\* Exception(result['error']), logged and re-raised by the except clause; an
\* exception leaving generate is re-raised as well.
ChatOutcome(res) ==
    IF res.kind = "return" /\ res.value.success
    THEN [pc |-> "returned", text |-> res.value.text, error |-> None]
    ELSE [pc |-> "raised", text |-> <<>>, error |-> res.value.error]

\* chat is called: the messages are flattened and generate is entered.
ChatBegin(msgs) ==
    /\ EnterGenerate(MessagesToPrompt(msgs))
    /\ chat' = [pc |-> "called", text |-> <<>>, error |-> None]

\* generate has come back to chat, which returns or raises.
ChatEnd ==
    /\ chat.pc = "called"
    /\ pc = "idle"
    /\ chat' = ChatOutcome(result)
    /\ UNCHANGED <<pool, now, pc, call, result, status, other>>

Next ==
    \/ Tick
    \/ GenerateBegin
    \/ CallProvider
    \/ \E resp \in Responses : ProviderResponds(resp)
    \/ \E msg \in ErrorMessages : ProviderRaises(msg)
    \/ \E fo \in FallbackOutcomes : Fallback(fo)
    \/ GetStatus

Spec == Init /\ [][Next]_vars

\* The wrapper used through chat as well as through generate and get_status.
ChatNext ==
    \/ Next
    \/ \E msgs \in ChatInputs : ChatBegin(msgs)
    \/ ChatEnd

ChatSpec == Init /\ [][ChatNext]_vars

\* ------------------------------------------- _rotate_key, step by step
\* Two callers share one instance and each makes one call of _rotate_key,
\* at any time; each statement of _rotate_key is a step of its caller, and
\* the steps of the two callers interleave freely.

\* What the steps of _rotate_key leave alone.
outside == <<n_keys, now, pc, call, result, status, chat, users, seed>>

\* A call that has come back with value r.
Returned(r) == [IdleThread EXCEPT !.ret = r, !.called = TRUE]

\* Lines 65-69: the guard, then the reads of the clock and of the index.
RotateBegin(t) ==
    /\ th[t].pc = "idle"
    /\ ~th[t].called
    /\ th' = [th EXCEPT ![t] =
                IF CannotRotate(n_keys)
                THEN Returned(FALSE)
                ELSE [IdleThread EXCEPT !.pc = "mark",
                                        !.current_time = now,
                                        !.original_index = current_key_index,
                                        !.called = TRUE]]
    /\ raced' = (raced \/ \E u \in Threads \ {t} : th[u].pc # "idle")
    /\ UNCHANGED <<current_key_index, key_cooldowns, model, outside>>

\* Line 72: self.key_cooldowns[self.current_key_index] = current_time
RotateMark(t) ==
    /\ th[t].pc = "mark"
    /\ key_cooldowns' =
           MarkCooldown(key_cooldowns, current_key_index, th[t].current_time)
    /\ th' = [th EXCEPT ![t].pc = "loop"]
    /\ UNCHANGED <<current_key_index, model, raced, outside>>

\* Line 75, and the load of self.current_key_index in line 76.
RotateLoop(t) ==
    /\ th[t].pc = "loop"
    /\ th' = [th EXCEPT ![t] =
                IF th[t].i >= n_keys
                THEN [@ EXCEPT !.pc = "restore"]
                ELSE [@ EXCEPT !.pc = "advance", !.i = @ + 1,
                               !.read = current_key_index]]
    /\ UNCHANGED <<current_key_index, key_cooldowns, model, raced, outside>>

\* The store of line 76.
RotateAdvance(t) ==
    /\ th[t].pc = "advance"
    /\ current_key_index' = (th[t].read + 1) % n_keys
    /\ th' = [th EXCEPT ![t].pc = "check"]
    /\ UNCHANGED <<key_cooldowns, model, raced, outside>>

\* Lines 79-80: the cooldown of the key the shared index names now.
RotateCheck(t) ==
    /\ th[t].pc = "check"
    /\ th' = [th EXCEPT ![t].pc =
                IF Available(key_cooldowns, current_key_index,
                             th[t].current_time)
                THEN "configure" ELSE "loop"]
    /\ UNCHANGED <<current_key_index, key_cooldowns, model, raced, outside>>

\* Lines 81-83: _configure_current_key reads the shared index; return True.
RotateConfigure(t) ==
    /\ th[t].pc = "configure"
    /\ model' = ConfigureCurrentKey(current_key_index)
    /\ th' = [th EXCEPT ![t] = Returned(TRUE)]
    /\ UNCHANGED <<current_key_index, key_cooldowns, raced, outside>>

\* Lines 86-87: the saved index is stored back; return False.
RotateRestore(t) ==
    /\ th[t].pc = "restore"
    /\ current_key_index' = th[t].original_index
    /\ th' = [th EXCEPT ![t] = Returned(FALSE)]
    /\ UNCHANGED <<key_cooldowns, model, raced, outside>>

ConcNext ==
    \/ Tick
    \/ \E t \in Threads : RotateBegin(t)
    \/ \E t \in Threads : RotateMark(t)
    \/ \E t \in Threads : RotateLoop(t)
    \/ \E t \in Threads : RotateAdvance(t)
    \/ \E t \in Threads : RotateCheck(t)
    \/ \E t \in Threads : RotateConfigure(t)
    \/ \E t \in Threads : RotateRestore(t)

ConcSpec == Init /\ [][ConcNext]_vars

\* ------------------------------------------------------- admin seeder
\* The fixed identity create_admin_user looks up and inserts.
AdminEmail == "admin@test.com"
AdminUsername == "admin"

\* A row of the user table.
User(name, mail, admin) ==
    [username |-> name, email |-> mail, is_admin |-> admin]

\* The record of lines 31-42.
AdminUser == User(AdminUsername, AdminEmail, TRUE)

\* Accounts other parts of the application may have registered: one holding
\* the admin's username, one holding the admin's email, one unrelated.
OtherUsers ==
    { User(AdminUsername, "a@x.org", FALSE),
      User("bob", AdminEmail, FALSE),
      User("carol", "c@x.org", FALSE) }

\* db.query(User).filter_by(email='admin@test.com').first()
FoundByEmail(us) == \E u \in us : u.email = AdminEmail

\* Variant: the second lookup filters by email again.
FoundByUsernameAsEmail(us) == \E u \in us : u.email = AdminEmail

\* db.query(User).filter_by(username='admin').first()
FoundByUsername(us) == \E u \in us : u.username = AdminUsername

\* What create_admin_user leaves alone.
gemini == <<pool, now, pc, call, result, status, chat, th, raced>>

\* An invocation that has ended with outcome o.
SeedEnded(o) == [seed EXCEPT !.pc = "idle", !.outcome = o]

\* create_admin_user is invoked: line 16.
SeedBegin ==
    /\ seed.pc = "idle"
    /\ seed.runs < MaxRuns
    /\ seed' = [seed EXCEPT !.pc = "by_email", !.runs = @ + 1,
                            !.outcome = "none"]
    /\ UNCHANGED <<users, gemini>>

\* Lines 19-22; a failing query is caught by lines 50-52.
SeedQueryEmail ==
    /\ seed.pc = "by_email"
    /\ \E ok \in BOOLEAN :
          seed' = IF ~ok THEN SeedEnded("error")
                  ELSE IF FoundByEmail(users) THEN SeedEnded("exists")
                  ELSE [seed EXCEPT !.pc = "by_username"]
    /\ UNCHANGED <<users, gemini>>

\* Lines 25-28.
SeedQueryUsername ==
    /\ seed.pc = "by_username"
    /\ \E ok \in BOOLEAN :
          seed' = IF ~ok THEN SeedEnded("error")
                  ELSE IF FoundByUsername(users) THEN SeedEnded("exists")
                  ELSE [seed EXCEPT !.pc = "insert"]
    /\ UNCHANGED <<users, gemini>>

\* Lines 31-52: add and commit, or a failing commit rolled back.
SeedInsert ==
    /\ seed.pc = "insert"
    /\ \E ok \in BOOLEAN :
          IF ok
          THEN /\ users' = users \cup {AdminUser}
               /\ seed' = [SeedEnded("created") EXCEPT !.inserted = @ + 1]
          ELSE /\ users' = users
               /\ seed' = SeedEnded("error")
    /\ UNCHANGED gemini

\* Another part of the application registers an account between two
\* invocations of the seeder.
RegisterUser(u) ==
    /\ seed.pc = "idle"
    /\ u \notin users
    /\ users' = users \cup {u}
    /\ UNCHANGED <<seed, gemini>>

\* The store the seeder is first run against holds any of the other accounts.
SeederInit ==
    /\ ObjectInit(1)
    /\ CallInit
    /\ ThreadsInit
    /\ users \in SUBSET OtherUsers
    /\ seed = SeedIdle

SeederNext ==
    \/ SeedBegin
    \/ SeedQueryEmail
    \/ SeedQueryUsername
    \/ SeedInsert
    \/ \E u \in OtherUsers : RegisterUser(u)

SeederSpec == SeederInit /\ [][SeederNext]_vars

\* ------------------------------------------------------- claim vocabulary
Keys == 0..(n_keys - 1)

\* A key counts as eligible at time t when it was never marked or its mark is
\* at least the cooldown duration old.
Eligible(cds, k, t) == k \notin DOMAIN cds \/ t - cds[k] >= cooldown_duration

\* Forward cyclic distance from index a to index b in the pool.
Dist(a, b) == (b - a + n_keys) % n_keys

TriedKeys == { tried[i].key : i \in 1..Len(tried) }
LastOut == IF tried = <<>> THEN "none" ELSE tried[Len(tried)].out
AllRateLimited == tried # <<>> /\ \A i \in 1..Len(tried) : tried[i].out = "rl"

\* The retry loop of the current (or last) generate call is over without a
\* return from inside the loop.
LoopOver == pc = "fallback" \/ (pc = "idle" /\ fallback.kind # "none")

\* The fallback provider's generate was called.
FallbackCalled == fallback.kind \in {"raise", "result"}

\* ------------------------------------------------------------------- C1
\* C1 (as stated): for a pool of N>1 keys, in a generate call where every
\* provider attempt raises a rate-limit error, _rotate_key is called at most
\* N-1 times before the fallback is attempted.
C1_AtMostNMinus1Rotations ==
    (n_keys > 1 /\ LoopOver /\ AllRateLimited) => rotations <= n_keys - 1

\* C1 (amended): in such a call _rotate_key is called once per attempt, hence
\* at most N times, before the fallback is attempted.
C1_AtMostNRotations ==
    (n_keys > 1 /\ LoopOver /\ AllRateLimited) =>
        /\ rotations = Len(tried)
        /\ rotations <= n_keys

C1_Witness ==
    /\ n_keys > 1
    /\ pc = "idle"
    /\ FallbackCalled
    /\ AllRateLimited
    /\ rotations = n_keys

\* ------------------------------------------------------------------- C2
\* C2: for N>1 keys, _rotate_key returns True exactly when a key other than
\* the active one is eligible at its clock reading; the new active index is
\* then the first eligible index in forward cyclic order from the old one;
\* the selected key is not in cooldown and is not the key just marked; at
\* most N candidates are examined.
C2_RotateSelectsFirstEligible ==
    (rot.called /\ n_keys > 1) =>
        LET others == { k \in Keys \ {rot.old_index} :
                          Eligible(rot.old_cooldowns, k, rot.t) }
        IN  /\ rot.ret <=> (others # {})
            /\ rot.ret =>
                 /\ current_key_index \in others
                 /\ \A k \in others :
                      Dist(rot.old_index, current_key_index)
                        <= Dist(rot.old_index, k)
                 /\ Eligible(key_cooldowns, current_key_index, rot.t)
                 /\ current_key_index # rot.old_index
            /\ rot.examined <= n_keys

\* A rotation that succeeds on a key whose cooldown has just run out.
C2_Witness ==
    /\ rot.called
    /\ n_keys > 1
    /\ rot.ret
    /\ current_key_index \in DOMAIN rot.old_cooldowns
    /\ rot.t - rot.old_cooldowns[current_key_index] = cooldown_duration

\* ------------------------------------------------------------------- C3
\* C3: with a pool of size 1, _rotate_key returns False and changes neither
\* the active index, nor the cooldown table, nor the configured client.
C3_SingleKeyRotateIsNoop ==
    (rot.called /\ n_keys = 1) =>
        /\ ~rot.ret
        /\ current_key_index = rot.old_index
        /\ key_cooldowns = rot.old_cooldowns
        /\ model = rot.old_model
        /\ rot.examined = 0

C3_Witness == rot.called /\ n_keys = 1 /\ rotations = 1

\* ------------------------------------------------------------------- C4
\* C4: for N>1 keys, when _rotate_key finds no eligible candidate it returns
\* False with the active index and the client as before the call; the active
\* key's cooldown is set to the clock reading and no other entry changes.
C4_FailedRotateFrame ==
    (rot.called /\ n_keys > 1 /\ ~rot.ret) =>
        /\ current_key_index = rot.old_index
        /\ model = rot.old_model
        /\ DOMAIN key_cooldowns = (DOMAIN rot.old_cooldowns) \cup {rot.old_index}
        /\ key_cooldowns[rot.old_index] = rot.t
        /\ \A k \in DOMAIN rot.old_cooldowns :
             k # rot.old_index => key_cooldowns[k] = rot.old_cooldowns[k]

C4_Witness ==
    /\ rot.called
    /\ n_keys > 1
    /\ ~rot.ret
    /\ rot.old_index \in DOMAIN rot.old_cooldowns
    /\ rot.old_cooldowns[rot.old_index] # rot.t

\* ------------------------------------------------------------------- C5
\* C5: generate never raises for provider-level failures, whatever the
\* provider and the fallback do; a result it builds itself is a success with
\* non-empty text and no error, or a failure with empty text, zero tokens and
\* a non-null error.
C5_GenerateNeverRaises ==
    /\ result.kind # "raise"
    /\ (pc = "idle" /\ tried # <<>>) => result.kind = "return"
    /\ (result.kind = "return" /\ result.by = "gemini") =>
         LET v == result.value
         IN  \/ v.success /\ v.text # <<>> /\ v.error = None
             \/ /\ ~v.success
                /\ v.text = <<>>
                /\ v.tokens_used = 0
                /\ v.error # None

C5_Witness ==
    /\ pc = "idle"
    /\ fallback.kind = "raise"
    /\ result.kind = "return"
    /\ ~result.value.success
    /\ result.value.error = Some(ErrBlank)

\* ------------------------------------------------------------------- C6
\* C6: within one generate call no key index is used for a provider call
\* twice, so the call makes at most N provider attempts, however much time
\* passes between the attempts.
C6_OneAttemptPerKey ==
    /\ Len(tried) <= n_keys
    /\ \A i, j \in 1..Len(tried) : i # j => tried[i].key # tried[j].key

\* N attempts in one call, the first key's cooldown over before the last
\* rotation.
C6_Witness ==
    /\ n_keys > 1
    /\ Len(tried) = n_keys
    /\ rot.called
    /\ tried[1].key \in DOMAIN key_cooldowns
    /\ rot.t - key_cooldowns[tried[1].key] >= cooldown_duration

\* ------------------------------------------------------------------- C7
\* C7: when a provider attempt raises an error that is not rate-limit
\* related, the retry loop is left at once: _rotate_key is not called, the
\* active index, the cooldown table and the client stay as they are, and no
\* further key is attempted in the call.
C7_NonRateLimitAbandons ==
    /\ [](\A i \in 1..Len(tried) : tried[i].out = "err" => i = Len(tried))
    /\ [][(pc = "await" /\ pc' # "await" /\ tried'[Len(tried')].out = "err")
            => /\ pc' = "fallback"
               /\ rotations' = rotations
               /\ rot' = rot
               /\ current_key_index' = current_key_index
               /\ key_cooldowns' = key_cooldowns
               /\ model' = model
               /\ Len(tried') = Len(tried)]_vars

C7_Witness ==
    /\ n_keys > 1
    /\ LoopOver
    /\ Len(tried) = 2
    /\ LastOut = "err"
    /\ rotations = 1

\* ------------------------------------------------------------------- C8
\* C8 (as stated): whenever generate calls the fallback provider, every key
\* of the primary pool has been attempted in the call or is in cooldown.
C8_FallbackOnlyAfterExhaustion ==
    FallbackCalled =>
        \A k \in Keys :
            k \in TriedKeys \/ ~Eligible(key_cooldowns, k, fallback.t)

\* C8 (amended): the fallback provider is called only after the retry loop
\* ended on a provider error; when that error was rate-limit related, every
\* key had been attempted in the call or was in cooldown when _rotate_key
\* last scanned the pool; when it was not, the fallback is called at once,
\* whatever the state of the other keys.
C8_FallbackAfterLoopEndedOnError ==
    FallbackCalled =>
        /\ LastOut \in {"rl", "err"}
        /\ last_error # None
        /\ LastOut = "rl" =>
             /\ rot.called
             /\ \A k \in Keys :
                  k \in TriedKeys \/ ~Eligible(key_cooldowns, k, rot.t)

C8_Witness ==
    /\ FallbackCalled
    /\ LastOut = "rl"
    /\ n_keys > 1
    /\ Len(tried) < n_keys

\* ------------------------------------------------------------------- C9
\* C9: after the retry loop ends without success the fallback provider is
\* called at most once; a fallback result reporting success is returned
\* unchanged; when the fallback is disabled, reports failure or raises,
\* generate returns the failure result with the primary provider's last
\* error, and does not raise.
C9_FallbackOutcome ==
    (pc = "idle" /\ fallback.kind # "none") =>
        /\ result.kind = "return"
        /\ IF fallback.kind = "result" /\ fallback.value.success
           THEN result.value = fallback.value /\ result.by = "fallback"
           ELSE /\ result.by = "gemini"
                /\ last_error # None
                /\ result.value =
                     [text |-> <<>>, success |-> FALSE, tokens_used |-> 0,
                      error |-> Some(last_error[1])]

C9_Witness ==
    /\ pc = "idle"
    /\ fallback.kind = "result"
    /\ ~fallback.value.success
    /\ result.value.error = Some(ErrTimeout)

\* ------------------------------------------------------------------ C10
\* C10 (as stated): for N>1 keys, whenever generate ends its primary attempts
\* on a rate-limit error, no key of the pool is eligible at that moment.
C10_RateLimitOnlyWhenAllCooling ==
    (n_keys > 1 /\ LoopOver /\ LastOut = "rl") =>
        \A k \in Keys : ~Eligible(key_cooldowns, k, rot.t)

\* C10 (amended): for N>1 keys, whenever generate ends its primary attempts
\* on a rate-limit error, every key is in cooldown at that moment or every
\* key has raised a rate-limit error in this call.
C10_RateLimitOnlyWhenExhausted ==
    (n_keys > 1 /\ LoopOver /\ LastOut = "rl") =>
        /\ rot.called
        /\ \/ \A k \in Keys : ~Eligible(key_cooldowns, k, rot.t)
           \/ \A k \in Keys :
                \E i \in 1..Len(tried) : tried[i].key = k /\ tried[i].out = "rl"

C10_Witness ==
    /\ n_keys > 1
    /\ LoopOver
    /\ LastOut = "rl"
    /\ rot.ret
    /\ \E k \in Keys : Eligible(key_cooldowns, k, rot.t)


\* ------------------------------------------------------------------ C11
\* The field holds text that can be read and is not empty.
HasDirect(r) == ~r.direct_err /\ r.direct # None /\ r.direct[1] # <<>>
HasNested(r) == ~r.nested_err /\ r.nested # None /\ r.nested[1] # <<>>

\* C11: when the provider returns a response with no extractable text
\* (neither the direct field nor the candidate path yields non-empty text),
\* generate returns success=False, text="" and a non-null error, and does not
\* raise.
C11_EmptyResponseResult ==
    (response # None /\ ~HasDirect(response[1]) /\ ~HasNested(response[1])) =>
        /\ result.kind = "return"
        /\ result.by = "gemini"
        /\ ~result.value.success
        /\ result.value.text = <<>>
        /\ result.value.error # None

\* Both fields inaccessible.
C11_Witness ==
    /\ pc = "idle"
    /\ response = Some(Response(None, TRUE, None, TRUE))
    /\ result.kind = "return"

\* ------------------------------------------------------------------ C12
\* C12: extraction takes the direct text field when it holds text, and
\* otherwise (absent, inaccessible or empty) the text of the first part of the
\* first candidate: a response with only the nested path yields the nested
\* text with success=True.
C12_ExtractionOrder ==
    response # None =>
        LET r == response[1]
        IN  /\ HasDirect(r) =>
                 result.value.success /\ result.value.text = r.direct[1]
            /\ (~HasDirect(r) /\ HasNested(r)) =>
                 result.value.success /\ result.value.text = r.nested[1]

\* The direct field raises on access, the nested path holds "x".
C12_Witness ==
    /\ response = Some(Response(None, TRUE, Some(Str_x), FALSE))
    /\ result.kind = "return"
    /\ result.value.success
    /\ result.value.text = Str_x

\* ------------------------------------------------------------------ C15
\* Words of a string, read left to right: a word starts at each character
\* that is not whitespace and follows the start or a whitespace character.
RECURSIVE WordsFrom(_, _, _)
WordsFrom(s, i, in_word) ==
    IF i > Len(s) THEN 0
    ELSE IF IsSpace(s[i]) THEN WordsFrom(s, i + 1, FALSE)
    ELSE (IF in_word THEN 0 ELSE 1) + WordsFrom(s, i + 1, TRUE)

\* C15: on a successful generation tokens_used is the number of
\* whitespace-delimited words of the prompt plus that of the generated text;
\* prompt "a b c" and response "d e" give 5.
C15_TokenEstimate ==
    (result.kind = "return" /\ result.by = "gemini" /\ result.value.success) =>
        /\ result.value.tokens_used =
             WordsFrom(prompt, 1, FALSE) + WordsFrom(result.value.text, 1, FALSE)
        /\ (prompt = Str_abc /\ result.value.text = Str_de) =>
             result.value.tokens_used = 5

C15_Witness ==
    /\ result.kind = "return"
    /\ result.by = "gemini"
    /\ prompt = Str_abc
    /\ result.value.text = Str_de
    /\ result.value.tokens_used = 5

\* ------------------------------------------------------------------ C20
\* C20: an empty-response failure ends the generate call at once: no
\* rotation, no further attempt, no fallback call, and the active index, the
\* cooldown table and the client are as before the attempt's outcome.
C20_EmptyResponseEndsCall ==
    /\ [](LastOut = "empty" => pc = "idle" /\ fallback.kind = "none")
    /\ [][(pc = "await" /\ pc' # "await" /\ tried'[Len(tried')].out = "empty")
            => /\ pc' = "idle"
               /\ rotations' = rotations
               /\ rot' = rot
               /\ fallback' = fallback
               /\ current_key_index' = current_key_index
               /\ key_cooldowns' = key_cooldowns
               /\ model' = model
               /\ Len(tried') = Len(tried)]_vars

\* An empty response on the second key of a call.
C20_Witness ==
    /\ n_keys > 1
    /\ pc = "idle"
    /\ Len(tried) = 2
    /\ LastOut = "empty"
    /\ rotations = 1


\* ------------------------------------------------------------------ C13
\* C13: chat returns the generated text when the underlying generate reports
\* success, and raises whenever generate returns success=False; it never
\* returns in place of a failure.
C13_ChatRaisesOnFailure ==
    (chat.pc \in {"returned", "raised"}) =>
        /\ result.kind = "return"
        /\ result.value.success =>
             chat.pc = "returned" /\ chat.text = result.value.text
        /\ ~result.value.success =>
             chat.pc = "raised" /\ chat.error = result.value.error

\* chat raising after an empty provider response.
C13_Witness ==
    /\ chat.pc = "raised"
    /\ LastOut = "empty"
    /\ chat.error = EmptyResult.error

\* ------------------------------------------------------------------ C16
\* C16: the active index always names a key of the pool, and only
\* _rotate_key changes it: a step that changes current_key_index is a
\* successful rotation; generate without rotation and get_status leave it.
C16_OnlyRotateMovesIndex ==
    /\ [](current_key_index \in 0..(n_keys - 1))
    /\ [][current_key_index' # current_key_index =>
            /\ rotations' = rotations + 1
            /\ rot'.called /\ rot'.ret]_vars
    /\ [][status' # status /\ status'.called =>
            current_key_index' = current_key_index]_vars

\* get_status called after a call that rotated to the second key.
C16_Witness ==
    /\ status.called
    /\ status.current_key_index = 2
    /\ current_key_index = 1
    /\ status.key_rotation = "enabled"

\* ------------------------------------------------------------------ C18
\* C18: across generate calls, no provider call is made with a key whose
\* cooldown timestamp t satisfies now - t < cooldown_duration.
C18_NoCallDuringCooldown ==
    [][(pc = "loop" /\ pc' = "await") =>
         Eligible(key_cooldowns, model, now)]_vars

\* ------------------------------------------------------------------ C19
\* C19: under single-threaded use, whenever no _rotate_key is in progress the
\* client is configured against the key at the active index.
C19_ClientMatchesActiveKey == model = current_key_index

\* A chat call has raised after its rotation failed, an earlier call having
\* rotated away from the first key.
C19_Witness ==
    /\ pc = "idle"
    /\ chat.pc = "raised"
    /\ rot.called
    /\ ~rot.ret
    /\ n_keys > 1
    /\ current_key_index # 0
    /\ model = current_key_index

\* ------------------------------------------------------------------ C17
\* C17: with two callers inside _rotate_key at once, a state is reachable,
\* both calls finished, in which the active index names a key other than the
\* one the client is configured against; this happens only when two calls
\* have overlapped.
C17_MismatchOnlyByRace ==
    ((\A t \in Threads : th[t].pc = "idle") /\ model # current_key_index)
        => raced

\* One call has succeeded and reconfigured the client, the other has failed
\* and restored its saved index: the index and the client disagree.
C17_Witness ==
    /\ \A t \in Threads : th[t].pc = "idle" /\ th[t].called
    /\ \E t, u \in Threads : th[t].ret /\ ~th[u].ret
    /\ model # current_key_index
    /\ raced

\* ------------------------------------------------------------------ C14
\* C14: an invocation of the seeder inserts nothing when a user with the
\* fixed email or the fixed username exists, so over any number of
\* sequential invocations at most one administrator record is inserted.
C14_SeederIdempotent ==
    /\ [](seed.inserted <= 1)
    /\ [][users' # users /\ seed'.inserted # seed.inserted =>
            /\ ~\E u \in users :
                   u.email = AdminEmail \/ u.username = AdminUsername
            /\ users' = users \cup {AdminUser}]_vars

\* A second invocation has found the account the first one inserted.
C14_Witness ==
    /\ seed.pc = "idle"
    /\ seed.runs >= 2
    /\ seed.inserted = 1
    /\ seed.outcome = "exists"
    /\ AdminUser \in users

====
